---- MODULE Spec2Model ----
(***************************************************************************)
(* Model of the Watts Vision frame decoder, src/devices/watts_vision.c.    *)
(* One decode call is followed statement by statement: the row-count test, *)
(* the sync search, the minimum-length test, the length read, the frame    *)
(* extraction, the CRC check and the emission of the record.               *)
(***************************************************************************)
EXTENDS Integers, Sequences, FiniteSets, TLC

VARIABLES bitbuffer, gen, pc, start_pos, len, frame, hiIndex, nBytes, crc,
          rx, logs, records, ret, exit, trace

vars == <<bitbuffer, gen, pc, start_pos, len, frame, hiIndex, nBytes, crc,
          rx, logs, records, ret, exit, trace>>

(***************************************************************************)
(* Bounds of the explored inputs.                                          *)
(***************************************************************************)
MaxRows  == 2   \* rows in the bit buffer
MaxLead  == 2   \* zero bits in front of the sync pattern
MaxSeed  == 2   \* payload contents
MaxTail  == 2   \* bytes that follow the inner CRC
MaxTrunc == 8   \* bits missing at the end of the row

\* declared length bytes that are tried: no payload, the frames shorter than
\* the minimum row, the frames around it, the frames around the end of the
\* working buffer, the ceiling and the lengths above it
LenBytes == {0, 1, 3, 5, 6, 47, 48, 50, 51, 255}

(***************************************************************************)
(* Constants of the decoder.                                               *)
(***************************************************************************)
preamble   == <<170, 170, 211, 145, 211, 145>>  \* aa aa d3 91 d3 91
MIN_BITS   == 14 * 8
MAX_LEN    == 50
FRAME_SIZE == 50
CRC_POLY   == 32773   \* 0x8005
CRC_INIT   == 65535   \* 0xffff
\* a negative int converted to unsigned becomes 2^32 + its value; the model's
\* integers end at 2^31 - 1, so the converted count is capped there
UINT_CAP   == 2147483647
\* highest index the extraction can write: frame[1 + (MAX_LEN + 2) - 1]
MEM_TOP    == MAX_LEN + 2

(***************************************************************************)
(* Bits and bytes.                                                         *)
(***************************************************************************)
Pow2(n) == 2 ^ n

\* the bits of a byte sequence, most significant bit first
BytesToBits(bs) ==
    [i \in 1..(8 * Len(bs)) |->
        (bs[((i - 1) \div 8) + 1] \div Pow2(7 - ((i - 1) % 8))) % 2]

Zeros(n) == [i \in 1..n |-> 0]

\* bit at 0-based position pos of a row; storage behind the row reads as 0
bit(row, pos) == IF pos < Len(row) THEN row[pos + 1] ELSE 0

\* the pattern occurs in the row at 0-based bit offset off
Matches(row, pat, off) ==
    /\ off + Len(pat) <= Len(row)
    /\ \A k \in 1..Len(pat) : row[off + k] = pat[k]

\* first offset >= start at which pat occurs in row, Len(row) when none
bitbuffer_search(row, start, pat) ==
    LET hits == {off \in start..(Len(row) - Len(pat)) : Matches(row, pat, off)}
    IN  IF hits = {} THEN Len(row)
        ELSE CHOOSE off \in hits : \A other \in hits : off <= other

\* the byte made of the 8 bits at pos..pos+7
ExtractByte(row, pos) ==
    bit(row, pos) * 128 + bit(row, pos + 1) * 64 + bit(row, pos + 2) * 32
    + bit(row, pos + 3) * 16 + bit(row, pos + 4) * 8 + bit(row, pos + 5) * 4
    + bit(row, pos + 6) * 2 + bit(row, pos + 7)

\* nbits (a multiple of 8 here) copied from pos into a byte sequence
bitbuffer_extract_bytes(row, pos, nbits) ==
    [i \in 1..((nbits + 7) \div 8) |-> ExtractByte(row, pos + 8 * (i - 1))]

RECURSIVE XorN(_, _, _)
XorN(a, b, n) ==
    IF n = 0 THEN 0
    ELSE (((a % 2) + (b % 2)) % 2) + 2 * XorN(a \div 2, b \div 2, n - 1)

\* one shift of the remainder, xoring the polynomial when the top bit is out
CrcShift1(remainder, polynomial) ==
    IF remainder >= 32768
      THEN XorN((remainder * 2) % 65536, polynomial, 16)
      ELSE remainder * 2

RECURSIVE CrcShift(_, _, _)
\* the inner loop of crc16: k shifts of the remainder
CrcShift(remainder, polynomial, k) ==
    IF k = 0 THEN remainder
    ELSE LET next == CrcShift1(remainder, polynomial)
         IN  IF next >= 0 THEN CrcShift(next, polynomial, k - 1) ELSE -1

RECURSIVE Crc16From(_, _, _, _)
\* the outer loop of crc16 from byte i (1-based) on
Crc16From(message, i, polynomial, remainder) ==
    IF i > Len(message) THEN remainder
    ELSE LET next == CrcShift(XorN(remainder, message[i] * 256, 16),
                              polynomial, 8)
         IN  IF next >= 0 THEN Crc16From(message, i + 1, polynomial, next)
             ELSE -1

crc16(message, polynomial, init) == Crc16From(message, 1, polynomial, init)

HexChars == <<"0", "1", "2", "3", "4", "5", "6", "7",
              "8", "9", "a", "b", "c", "d", "e", "f">>

\* "%x" in place of "%02x": no leading zero
sprintf_x(b) ==
    IF b < 16 THEN HexChars[b + 1]
    ELSE HexChars[(b \div 16) + 1] \o HexChars[(b % 16) + 1]

\* sprintf(.., "%02x", b)
sprintf_02x(b) == HexChars[(b \div 16) + 1] \o HexChars[(b % 16) + 1]

RECURSIVE frame_str(_, _, _)
\* the loop of lines 97-98 from index i on
frame_str(fr, n, i) ==
    IF i >= n THEN "" ELSE sprintf_02x(fr[i + 1]) \o frame_str(fr, n, i + 1)

\* the extraction of len + 2 bytes at &frame[1] stays inside frame[50]
FrameFits(l) == l + 2 <= FRAME_SIZE - 1

(***************************************************************************)
(* Inputs.                                                                 *)
(***************************************************************************)
\* payload byte i (1-based) of payload number seed; seed 1 is 01 02 03 ...
PayloadByte(seed, i) == (i * seed + 16 * (seed - 1)) % 256

\* number of bytes that follow a length byte in the generated rows
BodyLen(lenByte) == IF lenByte <= MAX_LEN THEN lenByte ELSE 8

Payload(seed, lenByte) == [i \in 1..BodyLen(lenByte) |-> PayloadByte(seed, i)]

\* CRC of the first L-1 payload bytes, as the transmitter computes it
InnerCrc(P) ==
    crc16(IF Len(P) = 0 THEN <<>> ELSE SubSeq(P, 1, Len(P) - 1),
          CRC_POLY, CRC_INIT)

CrcBytes(c) == <<c \div 256, c % 256>>

\* sync pattern, or the pattern with its last bit flipped
SyncBytes(ok) == IF ok THEN preamble ELSE <<170, 170, 211, 145, 211, 144>>

FrameBytes(syncOk, lenByte, seed, crcOk, tail) ==
    SyncBytes(syncOk) \o <<lenByte>> \o Payload(seed, lenByte)
    \o CrcBytes(IF crcOk THEN InnerCrc(Payload(seed, lenByte))
                ELSE (InnerCrc(Payload(seed, lenByte)) + 1) % 65536)
    \o [i \in 1..tail |-> 255]

\* a row: lead zero bits, a frame, optionally a second, valid frame behind
\* it, and the last trunc bits missing
MakeRow(g) ==
    LET full == Zeros(g.lead)
                \o BytesToBits(FrameBytes(g.syncOk, g.lenByte, g.seed,
                                          g.crcOk, g.tail))
                \o (IF g.second
                      THEN BytesToBits(FrameBytes(TRUE, 5, g.seed, TRUE, 0))
                      ELSE <<>>)
    IN  SubSeq(full, 1, Len(full) - g.trunc)

\* the rows that are tried
Tried(g) ==
    \/ /\ g.nrows = 0
       /\ g.lead = 0 /\ g.tail = 0 /\ g.trunc = 0 /\ ~g.second
       /\ g.syncOk /\ g.crcOk /\ g.lenByte = 5 /\ g.seed = 1
    \/ /\ g.nrows > 1
       /\ g.lead = 0 /\ g.tail = 0 /\ g.trunc = 0 /\ ~g.second
       /\ g.crcOk /\ g.lenByte \in {3, 5}
    \/ /\ g.nrows = 1
       /\ BodyLen(g.lenByte) < 20
       /\ ~g.second
    \/ /\ g.nrows = 1
       /\ BodyLen(g.lenByte) < 20
       /\ g.second /\ g.tail = 0 /\ g.trunc = 0 /\ g.lead = 0
    \/ /\ g.nrows = 1
       /\ BodyLen(g.lenByte) >= 20
       /\ g.lead = 0 /\ g.tail = 0 /\ g.syncOk /\ ~g.second
       /\ (g.trunc = 0 \/ FrameFits(g.lenByte))

Inputs ==
    [nrows : 0..MaxRows, lead : 0..MaxLead, syncOk : BOOLEAN,
     lenByte : LenBytes, seed : 1..MaxSeed, crcOk : BOOLEAN,
     tail : 0..MaxTail, trunc : 0..MaxTrunc, second : BOOLEAN]

Init ==
    \E g \in {h \in Inputs : Tried(h)} :
        /\ gen = g
        /\ bitbuffer = [r \in 1..g.nrows |-> MakeRow(g)]
        /\ pc = "Start"
        /\ start_pos = -1
        /\ len = -1
        /\ frame = [i \in 0..MEM_TOP |-> 0]
        /\ hiIndex = -1
        /\ nBytes = -1
        /\ crc = -1
        /\ rx = -1
        /\ logs = <<>>
        /\ records = <<>>
        /\ ret = "none"
        /\ exit = "none"
        /\ trace = <<>>

(***************************************************************************)
(* The decode call.                                                        *)
(***************************************************************************)
num_rows == Len(bitbuffer)
bits_per_row == Len(bitbuffer[1])

\* a return statement: the value returned and the rejection it stands for
Return(value, kind) ==
    /\ pc' = "Done"
    /\ ret' = value
    /\ exit' = kind

\* a test for "at least one row" in place of "exactly one row"
RowsOk_AtLeastOne(n) == n >= 1

\* line 50
RowsOk(n) == n = 1

\* lines 50-52
CheckRows ==
    /\ pc = "Start"
    /\ IF RowsOk(num_rows)
         THEN pc' = "Search" /\ UNCHANGED <<ret, exit>>
         ELSE Return("DECODE_ABORT_EARLY", "MultiRowInput")
    /\ UNCHANGED <<bitbuffer, gen, start_pos, len, frame, hiIndex, nBytes,
                   crc, rx, logs, records, trace>>

\* a test that only catches offsets behind the end of the row
NoPreamble_Beyond(pos, nbits) == pos > nbits

\* line 58
NoPreamble(pos, nbits) == pos = nbits

\* lines 54-60
SyncSearch ==
    /\ pc = "Search"
    /\ start_pos' = bitbuffer_search(bitbuffer[1], 0, BytesToBits(preamble))
    /\ trace' = Append(trace, "SyncSearch")
    /\ IF NoPreamble(start_pos', bits_per_row)
         THEN Return("DECODE_ABORT_EARLY", "SyncNotFound")
         ELSE pc' = "MinLen" /\ UNCHANGED <<ret, exit>>
    /\ UNCHANGED <<bitbuffer, gen, len, frame, hiIndex, nBytes, crc, rx,
                   logs, records>>

\* the minimum-length test with <= in place of <
BelowMinLength_Inclusive(nbits) == nbits <= MIN_BITS

\* line 63
BelowMinLength(nbits) == nbits < MIN_BITS

\* lines 62-65
CheckMinLength ==
    /\ pc = "MinLen"
    /\ IF BelowMinLength(bits_per_row)
         THEN Return("DECODE_ABORT_LENGTH", "TooShort")
         ELSE pc' = "LenRead" /\ UNCHANGED <<ret, exit>>
    /\ UNCHANGED <<bitbuffer, gen, start_pos, len, frame, hiIndex, nBytes,
                   crc, rx, logs, records, trace>>

\* the ceiling test one too high
TooLarge_OffByOne(l) == l > MAX_LEN + 1

\* line 71
TooLarge(l) == l > MAX_LEN

\* lines 67-74
LengthRead ==
    /\ pc = "LenRead"
    /\ len' = bitbuffer_extract_bytes(bitbuffer[1],
                                      start_pos + Len(preamble) * 8, 8)[1]
    /\ trace' = Append(trace, "LengthRead")
    /\ IF TooLarge(len')
         THEN /\ logs' = Append(logs, "packet to large")
              /\ Return("DECODE_ABORT_LENGTH", "FrameTooLarge")
         ELSE /\ pc' = "Extract"
              /\ UNCHANGED <<logs, ret, exit>>
    /\ UNCHANGED <<bitbuffer, gen, start_pos, frame, hiIndex, nBytes, crc,
                   rx, records>>

\* the call does not return: the process is stopped by a fault
Trap ==
    /\ pc' = "Done"
    /\ ret' = "none"
    /\ exit' = "Crash"

\* a return statement reached after the extraction: when the extraction
\* wrote behind frame[49] the stack is damaged and the return may fault
ReturnAfterExtract(value, kind) ==
    IF FrameFits(len) THEN Return(value, kind)
    ELSE Return(value, kind) \/ Trap

\* lines 76-84
Extract ==
    /\ pc = "Extract"
    /\ LET body == bitbuffer_extract_bytes(bitbuffer[1],
                       start_pos + (Len(preamble) + 1) * 8, (len + 2) * 8)
       IN  frame' = [i \in 0..MEM_TOP |->
                       IF i = 0 THEN len
                       ELSE IF i <= Len(body) THEN body[i] ELSE 0]
    /\ hiIndex' = len + 2
    /\ logs' = Append(logs, "frame data")
    /\ trace' = Append(trace, "Extract")
    /\ IF FrameFits(len)
         THEN pc' = "Crc" /\ UNCHANGED <<ret, exit>>
         ELSE \/ pc' = "Crc" /\ UNCHANGED <<ret, exit>>
              \/ Trap
    /\ UNCHANGED <<bitbuffer, gen, start_pos, len, nBytes, crc, rx, records>>

\* line 88: len - 1 is an int, converted to the unsigned byte count of crc16
CrcCount(l) == IF l - 1 >= 0 THEN l - 1 ELSE UINT_CAP

\* a comparison of the high bytes only
CrcMatches_HighByteOnly(received, computed) ==
    received \div 256 = computed \div 256

\* line 90
CrcMatches(received, computed) == received = computed

Max(a, b) == IF a >= b THEN a ELSE b

\* lines 86-94
CrcCheck ==
    /\ pc = "Crc"
    /\ nBytes' = CrcCount(len)
    /\ rx' = frame[len + 1] * 256 + frame[len + 2]
    /\ hiIndex' = Max(hiIndex, len + 2)
    /\ trace' = Append(trace, "CrcCheck")
    /\ \/ /\ nBytes' <= FRAME_SIZE - 1
          /\ crc' = crc16([i \in 1..nBytes' |-> frame[i]], CRC_POLY, CRC_INIT)
          /\ IF CrcMatches(rx', crc')
               THEN pc' = "Emit" /\ UNCHANGED <<logs, ret, exit>>
               ELSE /\ logs' = Append(logs, "CRC invalid")
                    /\ ReturnAfterExtract("DECODE_FAIL_MIC",
                                          "IntegrityCheckFailed")
       \* crc16 reads behind the frame: a fault, or a value made of
       \* whatever the memory behind the frame holds
       \/ /\ nBytes' > FRAME_SIZE - 1
          /\ \/ crc' = crc /\ logs' = logs /\ Trap
             \/ /\ crc' \in {rx', (rx' + 1) % 65536}
                /\ IF CrcMatches(rx', crc')
                     THEN pc' = "Emit" /\ UNCHANGED <<logs, ret, exit>>
                     ELSE /\ logs' = Append(logs, "CRC invalid")
                          /\ Return("DECODE_FAIL_MIC", "IntegrityCheckFailed")
    /\ UNCHANGED <<bitbuffer, gen, start_pos, len, frame, records>>

\* lines 96-108
Emit ==
    /\ pc = "Emit"
    /\ records' = Append(records, [model |-> "WattsVision",
                                   raw   |-> frame_str(frame, len, 0),
                                   mic   |-> "CRC"])
    /\ trace' = Append(trace, "Emit")
    /\ ReturnAfterExtract("1", "Success")
    /\ UNCHANGED <<bitbuffer, gen, start_pos, len, frame, hiIndex, nBytes,
                   crc, rx, logs>>

Next ==
    \/ CheckRows
    \/ SyncSearch
    \/ CheckMinLength
    \/ LengthRead
    \/ Extract
    \/ CrcCheck
    \/ Emit

Spec == Init /\ [][Next]_vars

TypeOK ==
    /\ pc \in {"Start", "Search", "MinLen", "LenRead", "Extract", "Crc",
               "Emit", "Done"}
    /\ len \in -1..255
    /\ crc \in -1..65535
    /\ rx \in -1..65535
    /\ ret \in {"none", "DECODE_ABORT_EARLY", "DECODE_ABORT_LENGTH",
                "DECODE_FAIL_MIC", "1"}

(***************************************************************************)
(* Vocabulary of the properties.                                           *)
(***************************************************************************)
Done == pc = "Done"

SingleRow == num_rows = 1

\* the 48-bit sync pattern occurs at some bit offset of the row
SyncPresent ==
    \E off \in 0..(bits_per_row - 48) :
        Matches(bitbuffer[1], BytesToBits(<<170, 170, 211, 145, 211, 145>>),
                off)

Rejections == {"MultiRowInput", "TooShort", "SyncNotFound", "FrameTooLarge",
               "IntegrityCheckFailed"}

Steps == <<"SyncSearch", "LengthRead", "Extract", "CrcCheck", "Emit">>

IsPrefix(s, t) == Len(s) <= Len(t) /\ s = SubSeq(t, 1, Len(s))

Ran(step) == \E k \in 1..Len(trace) : trace[k] = step

\* the generated row is exactly sync, length byte L, payload P and the CRC
\* of the first L-1 bytes of P
WellFormed ==
    /\ gen.nrows = 1 /\ gen.lead = 0 /\ gen.syncOk /\ gen.crcOk
    /\ gen.tail = 0 /\ gen.trunc = 0 /\ ~gen.second
    /\ gen.lenByte \in 1..50

RECURSIVE HexOf(_)
\* lowercase hex of a byte sequence, two digits per byte
HexOf(bytes) ==
    IF bytes = <<>> THEN ""
    ELSE HexChars[(Head(bytes) \div 16) + 1] \o HexChars[(Head(bytes) % 16) + 1]
         \o HexOf(Tail(bytes))

\* the row ends before the (len + 2) * 8 bits that follow the length byte
Truncated ==
    /\ SingleRow
    /\ bits_per_row >= 112
    /\ start_pos >= 0 /\ start_pos < bits_per_row
    /\ len \in 0..50
    /\ bits_per_row < start_pos + 56 + (len + 2) * 8

\* the received CRC as the row holds it, missing bits taken as zero
PaddedRx ==
    ExtractByte(bitbuffer[1], start_pos + 56 + len * 8) * 256
    + ExtractByte(bitbuffer[1], start_pos + 56 + (len + 1) * 8)

(***************************************************************************)
(* C1: for every admitted length (0..50) the extraction of len + 2 bytes   *)
(* at byte 1 and the reads of the received CRC at bytes len + 1 and        *)
(* len + 2 touch only indices 0..49 of the working buffer.                 *)
(***************************************************************************)
C1_BufferNeverExceeded ==
    (len \in 0..50 /\ Ran("Extract")) => hiIndex <= 49

\* the largest length whose extraction stays inside the buffer is 47
C1_FitsUpTo47 ==
    (len \in 0..47 /\ Ran("Extract")) => hiIndex <= 49

C1_Overrun == Ran("Extract") /\ len = 48 /\ hiIndex = 50

(***************************************************************************)
(* C2: a single row made of the sync pattern, the length byte L            *)
(* (1 <= L <= 50), the L payload bytes P and the big-endian CRC-16 of the  *)
(* first L-1 bytes of P decodes successfully, and the record's raw field   *)
(* is the lowercase hex of P.                                              *)
(***************************************************************************)
C2_RoundTrip ==
    (WellFormed /\ Done) =>
        /\ ret = "1"
        /\ records = <<[model |-> "WattsVision",
                        raw   |-> HexOf(Payload(gen.seed, gen.lenByte)),
                        mic   |-> "CRC"]>>

\* C2 as amended: the row must reach the 112-bit minimum, so L >= 5, and
\* the frame must fit the 50-byte working buffer, so L <= 47; for these L
\* the row decodes successfully and raw is the lowercase hex of P.
C2_RoundTripFrom5To47 ==
    (WellFormed /\ gen.lenByte \in 5..47 /\ Done) =>
        /\ ret = "1"
        /\ records = <<[model |-> "WattsVision",
                        raw   |-> HexOf(Payload(gen.seed, gen.lenByte)),
                        mic   |-> "CRC"]>>

C2_Decoded == WellFormed /\ gen.lenByte = 47 /\ Done /\ ret = "1"

(***************************************************************************)
(* C3: every single row shorter than 112 bits is rejected as TooShort (the *)
(* length abort), decided before the sync search and whether or not the    *)
(* sync pattern is in the row.                                             *)
(***************************************************************************)
C3_TooShortBeforeSearch ==
    (SingleRow /\ bits_per_row < 112 /\ Done) =>
        /\ exit = "TooShort"
        /\ ret = "DECODE_ABORT_LENGTH"
        /\ ~Ran("SyncSearch")

\* C3 as amended: the sync search runs first; a single row shorter than 112
\* bits is TooShort when it holds the sync pattern and SyncNotFound when it
\* does not; the length byte is never read; a row of 112 bits or more is
\* never TooShort.
C3_TooShortAfterSearch ==
    /\ (SingleRow /\ bits_per_row < 112 /\ Done) =>
          /\ Ran("SyncSearch")
          /\ len = -1
          /\ SyncPresent => (exit = "TooShort" /\ ret = "DECODE_ABORT_LENGTH")
          /\ ~SyncPresent =>
                (exit = "SyncNotFound" /\ ret = "DECODE_ABORT_EARLY")
    /\ (SingleRow /\ bits_per_row >= 112) => exit # "TooShort"
    /\ (SingleRow /\ bits_per_row = 112 /\ SyncPresent /\ Done) =>
          Ran("LengthRead")

C3_Row111TooShort ==
    SingleRow /\ bits_per_row = 111 /\ SyncPresent /\ Done
    /\ exit = "TooShort"

(***************************************************************************)
(* C4: a single row in which the sync pattern occurs at no bit offset is   *)
(* rejected as SyncNotFound (early abort): the length byte is never read,  *)
(* nothing is extracted, nothing is logged and no record is emitted.       *)
(***************************************************************************)
C4_SyncNotFound ==
    (SingleRow /\ ~SyncPresent) =>
        /\ len = -1
        /\ hiIndex = -1
        /\ ~Ran("LengthRead") /\ ~Ran("Extract")
        /\ logs = <<>>
        /\ records = <<>>
        /\ Done => (exit = "SyncNotFound" /\ ret = "DECODE_ABORT_EARLY")

C4_NoSyncRejected ==
    SingleRow /\ ~SyncPresent /\ bits_per_row >= 112 /\ Done
    /\ exit = "SyncNotFound"

(***************************************************************************)
(* C5: when the byte read after the first sync match is greater than 50    *)
(* the result is FrameTooLarge, decided at the length read: nothing is     *)
(* extracted, no CRC is computed, no record is emitted, whatever follows   *)
(* the length byte.                                                        *)
(***************************************************************************)
C5_FrameTooLarge ==
    len > 50 =>
        /\ Done
        /\ exit = "FrameTooLarge"
        /\ ret = "DECODE_ABORT_LENGTH"
        /\ trace = <<"SyncSearch", "LengthRead">>
        /\ hiIndex = -1
        /\ frame = [i \in 0..MEM_TOP |-> 0]
        /\ nBytes = -1 /\ crc = -1 /\ rx = -1
        /\ logs = <<"packet to large">>
        /\ records = <<>>

C5_Length51Rejected == len = 51 /\ Done /\ exit = "FrameTooLarge"

(***************************************************************************)
(* C6: after the extraction with 1 <= len <= 50 the decoder returns        *)
(* success and emits a record if and only if the CRC-16 over frame bytes   *)
(* 1..len-1 equals the big-endian value in frame bytes len+1, len+2; on a  *)
(* mismatch the result is IntegrityCheckFailed and no record is emitted.   *)
(***************************************************************************)
C6_SuccessIffCrc ==
    (len \in 1..50 /\ Ran("CrcCheck") /\ Done) =>
        LET computed == crc16([i \in 1..(len - 1) |-> frame[i]], 32773, 65535)
            received == frame[len + 1] * 256 + frame[len + 2]
        IN  /\ computed = received =>
                (ret = "1" /\ exit = "Success" /\ Len(records) = 1)
            /\ computed # received =>
                (exit = "IntegrityCheckFailed" /\ ret = "DECODE_FAIL_MIC"
                 /\ records = <<>>)

C6_CrashAfterCrc ==
    len = 48 /\ Ran("CrcCheck") /\ Done /\ exit = "Crash"

(***************************************************************************)
(* C7: with a declared length of 0 the decode always ends in a rejection   *)
(* with no record, and the CRC step covers a byte count that stays inside  *)
(* the working buffer (len - 1 does not wrap to a large unsigned count).   *)
(***************************************************************************)
C7_ZeroLengthRejected ==
    (SingleRow /\ len = 0) =>
        /\ records = <<>>
        /\ nBytes <= 49
        /\ Done => exit \in Rejections

C7_ZeroLengthWraps == len = 0 /\ nBytes > 49

(***************************************************************************)
(* C8: an input whose row count is not 1 is rejected as MultiRowInput      *)
(* (early abort) before any other step: no sync search, no row length      *)
(* inspected, nothing logged, no record.                                   *)
(***************************************************************************)
C8_MultiRowInput ==
    num_rows # 1 =>
        /\ pc \in {"Start", "Done"}
        /\ trace = <<>>
        /\ start_pos = -1 /\ len = -1
        /\ logs = <<>>
        /\ records = <<>>
        /\ Done => (exit = "MultiRowInput" /\ ret = "DECODE_ABORT_EARLY")

C8_TwoRowsRejected == num_rows = 2 /\ Done /\ exit = "MultiRowInput"

(***************************************************************************)
(* C9: a row of at least 112 bits with a sync match and a length <= 50     *)
(* that holds fewer than (len + 2) * 8 bits after the length byte never    *)
(* decodes successfully: the CRC check always catches the truncation.      *)
(***************************************************************************)
C9_TruncationAlwaysCaught ==
    Truncated => (ret # "1" /\ records = <<>>)

\* C9 as amended: the missing bits are read as zero, and the truncated row
\* decodes successfully only when the CRC computed over the extracted bytes
\* equals the received CRC as the zero-padded row holds it.
C9_TruncatedSuccessOnlyOnCrc ==
    (Truncated /\ (ret = "1" \/ records # <<>>)) =>
        (crc = PaddedRx /\ rx = PaddedRx)

C9_TruncatedAccepted ==
    Truncated /\ len \in 1..47 /\ Done /\ ret = "1"

(***************************************************************************)
(* C10: a decode call runs SyncSearch, LengthRead, Extract, CrcCheck in    *)
(* this order and ends in exactly one terminal outcome, success with a     *)
(* record or one rejection; after a rejection no later step runs; a record *)
(* is emitted at most once and only after the sync was found, the length   *)
(* accepted and the CRC matched.                                           *)
(***************************************************************************)
C10_OrderAndOneOutcome ==
    /\ IsPrefix(trace, Steps)
    /\ Len(records) <= 1
    /\ records # <<>> =>
          /\ SubSeq(trace, 1, 4) = SubSeq(Steps, 1, 4)
          /\ start_pos >= 0 /\ start_pos < bits_per_row
          /\ len \in 0..50
          /\ crc = rx
    /\ ~Done => (exit = "none" /\ ret = "none" /\ records = <<>>)
    /\ Done =>
          /\ ~ENABLED Next
          /\ exit \in Rejections \cup {"Success"}
          /\ exit = "Success" <=> records # <<>>
          /\ exit = "Success" <=> ret = "1"

C10_CallCrashes == Done /\ exit = "Crash" /\ len = 0

====
